---------------------------- MODULE Spec2Model ----------------------------
(***************************************************************************)
(* SpreadsheetML -> CSV converter (src/app.py).                            *)
(*                                                                         *)
(* main() is a linear pipeline: check the path, parse the XML, locate the  *)
(* first Worksheet/Table, reconstruct dense rows from the sparse cells     *)
(* (parse_rows), normalise the data rows to the header width, write        *)
(* output.csv.  parse_rows is modelled loop iteration by loop iteration.   *)
(*                                                                         *)
(* A Python str is a sequence of one-character strings, so that            *)
(* str.strip() and int() are computed rather than assumed.  An Optional    *)
(* value is a sequence of length 0 (None) or 1.                            *)
(***************************************************************************)
EXTENDS Integers, Sequences, FiniteSets

(***************************************************************************)
(* Bounds of the model.                                                    *)
(***************************************************************************)
\* cells per row in the single-row documents (the rich cell alphabet)
MaxCells == 3
\* rows per table in the multi-row documents
MaxRows == 3
\* cells per row in the multi-row documents (the small cell alphabet)
MaxWideCells == 1

(***************************************************************************)
(* Program constants.                                                      *)
(***************************************************************************)
\* return 2 on every handled error
FAILURE == 2
\* return 0 after output.csv is written
SUCCESS == 0

None == <<>>
Some(x) == <<x>>

(***************************************************************************)
(* str.strip(): drop leading and trailing whitespace.                      *)
(***************************************************************************)
Whitespace == {" ", "\t", "\n", "\r"}

RECURSIVE LStrip(_)
LStrip(s) ==
    IF s # <<>> /\ s[1] \in Whitespace THEN LStrip(Tail(s)) ELSE s

RECURSIVE RStrip(_)
RStrip(s) ==
    IF s # <<>> /\ s[Len(s)] \in Whitespace
    THEN RStrip(SubSeq(s, 1, Len(s) - 1))
    ELSE s

Strip(s) == RStrip(LStrip(s))

(***************************************************************************)
(* int(str): optional surrounding whitespace, optional sign, decimal       *)
(* digits with single underscores allowed between digits; anything else    *)
(* raises ValueError (ok = FALSE).                                         *)
(***************************************************************************)
Digits == {"0", "1", "2", "3", "4", "5", "6", "7", "8", "9"}

DigitVal(c) ==
    CASE c = "0" -> 0 [] c = "1" -> 1 [] c = "2" -> 2 [] c = "3" -> 3
      [] c = "4" -> 4 [] c = "5" -> 5 [] c = "6" -> 6 [] c = "7" -> 7
      [] c = "8" -> 8 [] c = "9" -> 9

IsDigitString(d) ==
    /\ d # <<>>
    /\ d[1] \in Digits
    /\ d[Len(d)] \in Digits
    /\ \A i \in 1..Len(d) : d[i] \in Digits \cup {"_"}
    /\ \A i \in 1..(Len(d) - 1) : ~(d[i] = "_" /\ d[i + 1] = "_")

RECURSIVE DigitsValue(_, _)
DigitsValue(d, acc) ==
    IF d = <<>> THEN acc
    ELSE IF d[1] = "_" THEN DigitsValue(Tail(d), acc)
    ELSE DigitsValue(Tail(d), 10 * acc + DigitVal(d[1]))

PyInt(s) ==
    LET t == Strip(s)
        signed == t # <<>> /\ t[1] \in {"+", "-"}
        d == IF signed THEN Tail(t) ELSE t
    IN  IF IsDigitString(d)
        THEN [ok |-> TRUE,
              val |-> IF signed /\ t[1] = "-"
                      THEN 0 - DigitsValue(d, 0)
                      ELSE DigitsValue(d, 0)]
        ELSE [ok |-> FALSE, val |-> 0]

(***************************************************************************)
(* get_cell_text                                                           *)
(***************************************************************************)
\* slip: the text returned as it stands
GetCellText_NoStrip(cell) ==
    IF cell.Data = None \/ cell.Data[1].text = None
    THEN <<>>
    ELSE cell.Data[1].text[1]

GetCellText(cell) ==
    IF cell.Data = None \/ cell.Data[1].text = None
    THEN <<>>
    ELSE Strip(cell.Data[1].text[1])

(***************************************************************************)
(* parse_rows, lines 42-47: the column the cell's ss:Index asks for.       *)
(* Only evaluated when the attribute is present.                           *)
(***************************************************************************)
\* slip: the index read as 0-based
TargetCol_ZeroBased(idx, current) ==
    IF PyInt(idx).ok THEN PyInt(idx).val + 1 ELSE current

\* slip: a rejected index falls back to the column after the cursor
TargetCol_FallbackNext(idx, current) ==
    IF PyInt(idx).ok THEN PyInt(idx).val ELSE current + 1

TargetCol(idx, current) ==
    IF PyInt(idx).ok THEN PyInt(idx).val ELSE current

(***************************************************************************)
(* parse_rows, lines 38-56, as a fold over the cells of one row.           *)
(***************************************************************************)
Blanks(n) == [i \in 1..n |-> <<>>]

RECURSIVE FoldCells(_, _, _)
FoldCells(cells, vals, current) ==
    IF cells = <<>> THEN vals
    ELSE LET cell == Head(cells)
             target == IF cell.Index = None THEN current
                       ELSE TargetCol(cell.Index[1], current)
             gap == IF current < target THEN target - current ELSE 0
         IN  FoldCells(Tail(cells),
                       vals \o Blanks(gap) \o <<GetCellText(cell)>>,
                       current + gap + 1)

ReconstructRow(row) == FoldCells(row, <<>>, 1)

(***************************************************************************)
(* main, lines 99-104: one data row brought to the header's length.        *)
(***************************************************************************)
\* slip: the elif branch left out
NormalizeRow_NoTruncate(r, header_len) ==
    IF Len(r) < header_len THEN r \o Blanks(header_len - Len(r)) ELSE r

NormalizeRow(r, header_len) ==
    IF Len(r) < header_len THEN r \o Blanks(header_len - Len(r))
    ELSE IF Len(r) > header_len THEN SubSeq(r, 1, header_len)
    ELSE r


(***************************************************************************)
(* Inputs.  A cell is its optional ss:Index attribute and its optional     *)
(* ss:Data child, whose text is itself optional.  A document is what the   *)
(* path names: whether it exists, is a regular file, is well-formed XML,   *)
(* has a Worksheet under the root, a Table under the Worksheet, and the    *)
(* Rows of that Table.                                                     *)
(***************************************************************************)
Cell(index, data) == [Index |-> index, Data |-> data]

DataEl(text) == Some([text |-> text])

IndexAttrs ==
    { None, Some(<<"x">>), Some(<<"0">>), Some(<<"-", "1">>),
      Some(<<"1">>), Some(<<"2">>), Some(<<" ", "3">>) }

DataChildren ==
    { None, DataEl(None), DataEl(Some(<<"A">>)),
      DataEl(Some(<<" ", "B", " ">>)) }

Cells ==
    { Cell(i, DataEl(Some(<<"A">>))) : i \in IndexAttrs }
        \cup { Cell(None, d) : d \in DataChildren }
        \cup { Cell(Some(<<"2">>), None) }

WideCells ==
    { Cell(None, DataEl(Some(<<"A">>))), Cell(Some(<<" ", "3">>), None) }

SeqsUpTo(S, n) == UNION { [1..k -> S] : k \in 0..n }

\* one row of up to MaxCells cells over the rich alphabet
DeepTables == { <<row>> : row \in SeqsUpTo(Cells, MaxCells) }

\* up to MaxRows rows of up to MaxWideCells cells over the small alphabet
WideTables == SeqsUpTo(SeqsUpTo(WideCells, MaxWideCells), MaxRows)

Document(exists, is_file, well_formed, worksheet, table, rows) ==
    [exists |-> exists, is_file |-> is_file, well_formed |-> well_formed,
     worksheet |-> worksheet, table |-> table, rows |-> rows]

Documents ==
    { Document(FALSE, FALSE, FALSE, FALSE, FALSE, <<>>),
      Document(TRUE, FALSE, FALSE, FALSE, FALSE, <<>>),
      Document(TRUE, TRUE, FALSE, FALSE, FALSE, <<>>),
      Document(TRUE, TRUE, TRUE, FALSE, FALSE, <<>>),
      Document(TRUE, TRUE, TRUE, TRUE, FALSE, <<>>) }
        \cup { Document(TRUE, TRUE, TRUE, TRUE, TRUE, t) :
                   t \in DeepTables \cup WideTables }

(***************************************************************************)
(* State.                                                                  *)
(***************************************************************************)
VARIABLES
    doc,          \* what the entered path names (the environment)
    pc,           \* main's position
    table,        \* parse_rows: the rows of its argument
    rows_out,     \* parse_rows: rows_out
    ri,           \* parse_rows: position of `row` in the outer for
    values,       \* parse_rows: values
    current_col,  \* parse_rows: current_col
    ci,           \* parse_rows: position of `cell` in the inner for
    target_col,   \* parse_rows: target_col
    all_rows,     \* main: all_rows
    headers,      \* main: headers
    data_rows,    \* main: data_rows
    normalized,   \* main: normalized
    ni,           \* main: position of `r` in the normalising for
    output_csv,   \* output.csv: None, or the rows handed to the csv writer
    stdout,       \* lines printed to stdout
    stderr,       \* lines printed to stderr
    ret,          \* main's return value: None until it returns
    stages,       \* history: the pipeline stages entered, in order
    cursor_at,    \* history: per cell of the current row, current_col when reached
    col_of        \* history: per cell of the current row, the column it was put in

vars ==
    <<doc, pc, table, rows_out, ri, values, current_col, ci, target_col,
      all_rows, headers, data_rows, normalized, ni, output_csv, stdout,
      stderr, ret, stages, cursor_at, col_of>>

parseVars == <<table, rows_out, ri, values, current_col, ci, target_col,
               cursor_at, col_of>>

mainVars == <<all_rows, headers, data_rows, normalized, ni>>

ioVars == <<output_csv, stdout, stderr, ret>>

Init ==
    /\ doc \in Documents
    /\ pc = "start"
    /\ table = <<>>
    /\ rows_out = <<>>
    /\ ri = 0
    /\ values = <<>>
    /\ current_col = 1
    /\ ci = 0
    /\ target_col = 0
    /\ all_rows = <<>>
    /\ headers = <<>>
    /\ data_rows = <<>>
    /\ normalized = <<>>
    /\ ni = 0
    /\ output_csv = None
    /\ stdout = <<>>
    /\ stderr = <<>>
    /\ ret = None
    /\ stages = <<>>
    /\ cursor_at = <<>>
    /\ col_of = <<>>

\* print(..., file=sys.stderr); return 2
Abort(msg) ==
    /\ stderr' = Append(stderr, msg)
    /\ ret' = Some(FAILURE)
    /\ pc' = "done"
    /\ UNCHANGED <<output_csv, stdout>>

(***************************************************************************)
(* main                                                                    *)
(***************************************************************************)
\* lines 62-67
CheckPath ==
    /\ pc = "start"
    /\ stages' = Append(stages, "read")
    /\ IF ~doc.exists \/ ~doc.is_file
       THEN Abort("file not found")
       ELSE pc' = "parse_xml" /\ UNCHANGED ioVars
    /\ UNCHANGED <<doc, parseVars, mainVars>>

\* lines 69-75
ParseXml ==
    /\ pc = "parse_xml"
    /\ stages' = Append(stages, "parse")
    /\ IF ~doc.well_formed
       THEN Abort("failed to parse XML")
       ELSE pc' = "find_worksheet" /\ UNCHANGED ioVars
    /\ UNCHANGED <<doc, parseVars, mainVars>>

\* lines 78-81
FindWorksheet ==
    /\ pc = "find_worksheet"
    /\ IF ~doc.worksheet
       THEN Abort("couldn't find <Worksheet>")
       ELSE pc' = "find_table" /\ UNCHANGED ioVars
    /\ UNCHANGED <<doc, parseVars, mainVars, stages>>

\* lines 83-86
FindTable ==
    /\ pc = "find_table"
    /\ IF ~doc.table
       THEN Abort("couldn't find <Table>")
       ELSE pc' = "call_parse_rows" /\ UNCHANGED ioVars
    /\ UNCHANGED <<doc, parseVars, mainVars, stages>>

\* line 88 (the call) and line 35
CallParseRows ==
    /\ pc = "call_parse_rows"
    /\ stages' = Append(stages, "reconstruct")
    /\ table' = doc.rows
    /\ rows_out' = <<>>
    /\ ri' = 0
    /\ pc' = "rows_for"
    /\ UNCHANGED <<doc, values, current_col, ci, target_col, cursor_at,
                   col_of, mainVars, ioVars>>

(***************************************************************************)
(* parse_rows                                                              *)
(***************************************************************************)
\* lines 37-39: the outer for takes the next Row
ForRow ==
    /\ pc = "rows_for"
    /\ ri < Len(table)
    /\ ri' = ri + 1
    /\ values' = <<>>
    /\ current_col' = 1
    /\ ci' = 0
    /\ cursor_at' = <<>>
    /\ col_of' = <<>>
    /\ pc' = "cells_for"
    /\ UNCHANGED <<doc, table, rows_out, target_col, mainVars, ioVars, stages>>

\* lines 41-47: the inner for takes the next Cell and reads its ss:Index
ForCell ==
    /\ pc = "cells_for"
    /\ ci < Len(table[ri])
    /\ ci' = ci + 1
    /\ cursor_at' = Append(cursor_at, current_col)
    /\ LET idx == table[ri][ci + 1].Index
       IN  IF idx # None
           THEN /\ target_col' = TargetCol(idx[1], current_col)
                /\ pc' = "gap_while"
           ELSE /\ pc' = "append"
                /\ UNCHANGED target_col
    /\ UNCHANGED <<doc, table, rows_out, ri, values, current_col, col_of,
                   mainVars, ioVars, stages>>

\* lines 49-51: one iteration of the gap-filling while
GapFill ==
    /\ pc = "gap_while"
    /\ current_col < target_col
    /\ values' = Append(values, <<>>)
    /\ current_col' = current_col + 1
    /\ UNCHANGED <<doc, pc, table, rows_out, ri, ci, target_col, cursor_at,
                   col_of, mainVars, ioVars, stages>>

\* lines 53-54, reached past the while or straight from a cell with no index
\* slip: an index below the cursor seeks back and overwrites
AppendCell_Overwrite ==
    /\ \/ pc = "append"
       \/ pc = "gap_while" /\ ~(current_col < target_col)
    /\ IF pc = "gap_while" /\ target_col >= 1 /\ target_col < current_col
       THEN /\ values' = [values EXCEPT ![target_col] = GetCellText(table[ri][ci])]
            /\ col_of' = Append(col_of, target_col)
            /\ UNCHANGED current_col
       ELSE /\ values' = Append(values, GetCellText(table[ri][ci]))
            /\ col_of' = Append(col_of, Len(values) + 1)
            /\ current_col' = current_col + 1
    /\ pc' = "cells_for"
    /\ UNCHANGED <<doc, table, rows_out, ri, ci, target_col, cursor_at,
                   mainVars, ioVars, stages>>

\* slip: a cell with no text is not appended
AppendCell_SkipEmpty ==
    /\ \/ pc = "append"
       \/ pc = "gap_while" /\ ~(current_col < target_col)
    /\ IF GetCellText(table[ri][ci]) = <<>>
       THEN /\ col_of' = Append(col_of, Len(values))
            /\ UNCHANGED <<values, current_col>>
       ELSE /\ values' = Append(values, GetCellText(table[ri][ci]))
            /\ col_of' = Append(col_of, Len(values) + 1)
            /\ current_col' = current_col + 1
    /\ pc' = "cells_for"
    /\ UNCHANGED <<doc, table, rows_out, ri, ci, target_col, cursor_at,
                   mainVars, ioVars, stages>>

\* slip: the cursor advanced only for a cell with no index
AppendCell_NoAdvance ==
    /\ \/ pc = "append"
       \/ pc = "gap_while" /\ ~(current_col < target_col)
    /\ values' = Append(values, GetCellText(table[ri][ci]))
    /\ col_of' = Append(col_of, Len(values) + 1)
    /\ current_col' = IF pc = "append" THEN current_col + 1 ELSE current_col
    /\ pc' = "cells_for"
    /\ UNCHANGED <<doc, table, rows_out, ri, ci, target_col, cursor_at,
                   mainVars, ioVars, stages>>

AppendCell ==
    /\ \/ pc = "append"
       \/ pc = "gap_while" /\ ~(current_col < target_col)
    /\ values' = Append(values, GetCellText(table[ri][ci]))
    /\ col_of' = Append(col_of, Len(values) + 1)
    /\ current_col' = current_col + 1
    /\ pc' = "cells_for"
    /\ UNCHANGED <<doc, table, rows_out, ri, ci, target_col, cursor_at,
                   mainVars, ioVars, stages>>

\* line 56: the inner for is exhausted
\* slip: a row with no values is not appended
AppendRow_SkipEmpty ==
    /\ pc = "cells_for"
    /\ ~(ci < Len(table[ri]))
    /\ rows_out' = IF values = <<>> THEN rows_out ELSE Append(rows_out, values)
    /\ pc' = "rows_for"
    /\ UNCHANGED <<doc, table, ri, values, current_col, ci, target_col,
                   cursor_at, col_of, mainVars, ioVars, stages>>

AppendRow ==
    /\ pc = "cells_for"
    /\ ~(ci < Len(table[ri]))
    /\ rows_out' = Append(rows_out, values)
    /\ pc' = "rows_for"
    /\ UNCHANGED <<doc, table, ri, values, current_col, ci, target_col,
                   cursor_at, col_of, mainVars, ioVars, stages>>

\* line 58 and the assignment of line 88: the outer for is exhausted
ReturnRows ==
    /\ pc = "rows_for"
    /\ ~(ri < Len(table))
    /\ all_rows' = rows_out
    /\ pc' = "check_rows"
    /\ UNCHANGED <<doc, parseVars, headers, data_rows, normalized, ni,
                   ioVars, stages>>

(***************************************************************************)
(* main, continued                                                         *)
(***************************************************************************)
\* lines 89-91
\* slip: output.csv opened before the rows are checked
CheckRows_WritesFirst ==
    /\ pc = "check_rows"
    /\ IF all_rows = <<>>
       THEN /\ stderr' = Append(stderr, "no rows found")
            /\ ret' = Some(FAILURE)
            /\ pc' = "done"
            /\ output_csv' = Some(<<>>)
            /\ UNCHANGED stdout
       ELSE pc' = "headers" /\ UNCHANGED ioVars
    /\ UNCHANGED <<doc, parseVars, mainVars, stages>>

CheckRows ==
    /\ pc = "check_rows"
    /\ IF all_rows = <<>>
       THEN Abort("no rows found")
       ELSE pc' = "headers" /\ UNCHANGED ioVars
    /\ UNCHANGED <<doc, parseVars, mainVars, stages>>

\* lines 93-98
\* slip: the header written at once, the data rows later
SplitHeaders_WritesHeaderFirst ==
    /\ pc = "headers"
    /\ stages' = stages \o <<"write", "normalize">>
    /\ headers' = all_rows[1]
    /\ data_rows' = Tail(all_rows)
    /\ normalized' = <<>>
    /\ ni' = 0
    /\ pc' = "normalize"
    /\ output_csv' = Some(<<all_rows[1]>>)
    /\ UNCHANGED <<doc, parseVars, all_rows, stdout, stderr, ret>>

SplitHeaders ==
    /\ pc = "headers"
    /\ stages' = Append(stages, "normalize")
    /\ headers' = all_rows[1]
    /\ data_rows' = Tail(all_rows)
    /\ normalized' = <<>>
    /\ ni' = 0
    /\ pc' = "normalize"
    /\ UNCHANGED <<doc, parseVars, all_rows, ioVars>>

\* lines 99-104: one iteration of the normalising for
NormalizeNext ==
    /\ pc = "normalize"
    /\ ni < Len(data_rows)
    /\ ni' = ni + 1
    /\ normalized' = Append(normalized, NormalizeRow(data_rows[ni + 1], Len(headers)))
    /\ UNCHANGED <<doc, pc, parseVars, all_rows, headers, data_rows, ioVars,
                   stages>>

\* lines 106-113: the for is exhausted; open, writerow, writerows, print, return 0
WriteCsv ==
    /\ pc = "normalize"
    /\ ~(ni < Len(data_rows))
    /\ stages' = Append(stages, "write")
    /\ output_csv' = Some(<<headers>> \o normalized)
    /\ stdout' = Append(stdout, [wrote |-> Len(normalized)])
    /\ ret' = Some(SUCCESS)
    /\ pc' = "done"
    /\ UNCHANGED <<doc, parseVars, mainVars, stderr>>

Next ==
    \/ CheckPath
    \/ ParseXml
    \/ FindWorksheet
    \/ FindTable
    \/ CallParseRows
    \/ ForRow
    \/ ForCell
    \/ GapFill
    \/ AppendCell
    \/ AppendRow
    \/ ReturnRows
    \/ CheckRows
    \/ SplitHeaders
    \/ NormalizeNext
    \/ WriteCsv

Spec == Init /\ [][Next]_vars

\* the interpreter runs main to its return: a step that can be taken is taken
FairSpec == Spec /\ WF_vars(Next)

(***************************************************************************)
(* Vocabulary of the properties.                                           *)
(***************************************************************************)
IsPrefix(s, t) == Len(s) <= Len(t) /\ SubSeq(t, 1, Len(s)) = s

Max(S) == CHOOSE m \in S : \A x \in S : x <= m

\* the cell carries an ss:Index that int() accepts
HasIntIndex(cell) == cell.Index # None /\ PyInt(cell.Index[1]).ok

\* the cell carries an ss:Index that int() rejects
HasBadIndex(cell) == cell.Index # None /\ ~PyInt(cell.Index[1]).ok

IndexOf(cell) == PyInt(cell.Index[1]).val

\* the text of the cell's Data element as it stands in the document
RawText(cell) ==
    IF cell.Data = None \/ cell.Data[1].text = None
    THEN <<>>
    ELSE cell.Data[1].text[1]

\* the cells of the row being reconstructed that have been appended
Placed == 1..Len(col_of)

\* the row being reconstructed (the last one, once parse_rows has returned)
CurRow == table[ri]

\* current_col once cell i of the current row has been appended
CursorAfter(i) ==
    IF i < Len(cursor_at) THEN cursor_at[i + 1] ELSE current_col

\* the document passes every check of main
GoodDoc ==
    /\ doc.exists /\ doc.is_file /\ doc.well_formed
    /\ doc.worksheet /\ doc.table /\ doc.rows # <<>>

(***************************************************************************)
(* C1: a cell whose explicit index parses to an integer k >= the cursor    *)
(* at the moment the cell is processed ends up at column k of the row,     *)
(* and every column from that cursor value up to k-1 holds "".             *)
(***************************************************************************)
C1_IndexedCellAtItsColumn ==
    \A i \in Placed :
        LET cell == CurRow[i]
        IN  (HasIntIndex(cell) /\ IndexOf(cell) >= cursor_at[i]) =>
                /\ col_of[i] = IndexOf(cell)
                /\ IndexOf(cell) \in DOMAIN values
                /\ values[IndexOf(cell)] = GetCellText(cell)
                /\ \A c \in cursor_at[i]..(IndexOf(cell) - 1) :
                       c \in DOMAIN values /\ values[c] = <<>>

\* a cell with text was put at its index past a gap of at least one column,
\* after an earlier cell of the row
C1_Witness ==
    \E i \in Placed :
        /\ i >= 2
        /\ HasIntIndex(CurRow[i])
        /\ IndexOf(CurRow[i]) > cursor_at[i]
        /\ values[IndexOf(CurRow[i])] = <<"A">>

(***************************************************************************)
(* C2: with N the length of the header row, every normalised data row has  *)
(* exactly N fields: the row padded with "" when shorter, its first N      *)
(* entries when longer, itself when equal; normalising it again changes    *)
(* nothing; and these are the data rows written to output.csv.  N = 0 and  *)
(* empty rows included.                                                    *)
(***************************************************************************)
C2_NormalizedToHeaderWidth ==
    /\ Len(normalized) = ni
    /\ \A i \in 1..Len(normalized) :
           LET r == data_rows[i]
               n == Len(headers)
               out == normalized[i]
           IN  /\ Len(out) = n
               /\ Len(r) < n =>
                      /\ SubSeq(out, 1, Len(r)) = r
                      /\ \A j \in (Len(r) + 1)..n : out[j] = <<>>
               /\ Len(r) > n => out = SubSeq(r, 1, n)
               /\ Len(r) = n => out = r
               /\ NormalizeRow(out, n) = out
    /\ output_csv # None =>
           /\ Len(output_csv[1]) = 1 + Len(data_rows)
           /\ \A i \in 1..Len(data_rows) :
                  /\ output_csv[1][i + 1] = normalized[i]
                  /\ Len(output_csv[1][i + 1]) = Len(output_csv[1][1])

\* a padded row, a truncated row and a row of the header's length were written
C2_Witness ==
    /\ output_csv # None
    /\ \E i \in 1..Len(data_rows) : Len(data_rows[i]) < Len(headers)
    /\ \E i \in 1..Len(data_rows) : Len(data_rows[i]) > Len(headers)

\* a header of no fields: every data row is cut to no fields
C2_WitnessEmptyHeader ==
    /\ output_csv # None
    /\ headers = <<>>
    /\ \E i \in 1..Len(data_rows) : Len(data_rows[i]) > 0

(***************************************************************************)
(* C3: a missing path, a path that is no regular file, XML that does not   *)
(* parse, no Worksheet, no Table or a table of zero rows makes the run     *)
(* return a non-zero status with a diagnostic, and output.csv is never     *)
(* opened or written; the run returns 0 only when none of these holds, and *)
(* only then is output.csv written.                                        *)
(***************************************************************************)
C3_FailuresWriteNothing ==
    /\ ~GoodDoc =>
           /\ output_csv = None
           /\ "write" \notin { stages[i] : i \in DOMAIN stages }
           /\ ret # Some(SUCCESS)
           /\ pc = "done" =>
                  /\ ret # None /\ ret[1] # 0
                  /\ Len(stderr) = 1
                  /\ stdout = <<>>
    /\ ret = Some(SUCCESS) => GoodDoc /\ output_csv # None
    /\ output_csv # None => GoodDoc /\ ret = Some(SUCCESS)
    /\ pc = "done" => ret # None

\* the table has no Row: the run has ended in failure
C3_Witness ==
    /\ doc.table /\ doc.rows = <<>>
    /\ pc = "done"
    /\ ret = Some(FAILURE)

(***************************************************************************)
(* C4 as stated: a row with no explicit index is reconstructed as its      *)
(* cells' Data texts, in order and unchanged ("" for a cell with no Data   *)
(* child or no text).                                                      *)
(***************************************************************************)
C4_Original ==
    \A i \in 1..Len(rows_out) :
        (\A j \in 1..Len(table[i]) : table[i][j].Index = None) =>
            rows_out[i] = [j \in 1..Len(table[i]) |-> RawText(table[i][j])]

(***************************************************************************)
(* C4 as amended: a row with no explicit index is reconstructed as its     *)
(* cells' Data texts in order, each with its leading and trailing          *)
(* whitespace removed ("" for a cell with no Data child or no text).       *)
(***************************************************************************)
C4_UnindexedRowIsItsStrippedTexts ==
    \A i \in 1..Len(rows_out) :
        (\A j \in 1..Len(table[i]) : table[i][j].Index = None) =>
            rows_out[i] =
                [j \in 1..Len(table[i]) |-> Strip(RawText(table[i][j]))]

\* a returned row of three unindexed cells: text with surrounding blanks,
\* no Data child, Data with no text
C4_Witness ==
    \E i \in 1..Len(rows_out) :
        /\ Len(table[i]) = 3
        /\ \A j \in 1..3 : table[i][j].Index = None
        /\ RawText(table[i][1]) = <<" ", "B", " ">>
        /\ table[i][2].Data = None
        /\ table[i][3].Data = DataEl(None)

\* every appended cell whose integer index is below the cursor it met
C5_LowIndexPlaced ==
    \A i \in Placed :
        LET cell == CurRow[i]
        IN  (HasIntIndex(cell) /\ IndexOf(cell) < cursor_at[i]) =>
                /\ col_of[i] = cursor_at[i]
                /\ values[cursor_at[i]] = GetCellText(cell)
                /\ CursorAfter(i) = cursor_at[i] + 1

\* one step inside a row
C5_LowIndexStep ==
    /\ ri' = ri =>
           /\ IsPrefix(values, values')
           /\ current_col' >= current_col
    /\ (pc = "gap_while" /\ target_col < current_col) =>
           /\ values' = Append(values, GetCellText(CurRow[ci]))
           /\ current_col' = current_col + 1

(***************************************************************************)
(* C5: a cell whose explicit integer index is less than the cursor         *)
(* (out of order, duplicate, zero, negative) adds no gap-fill entry and    *)
(* has its text appended at the cursor; entries already accumulated stay   *)
(* as they are: within a row the accumulated row only grows by appending   *)
(* and the cursor never decreases.                                         *)
(***************************************************************************)
C5_LowIndexAppendsOnly == [](C5_LowIndexPlaced) /\ [][C5_LowIndexStep]_vars

\* after two earlier cells, a third cell whose index names the column of
\* the first has been appended
C5_Witness ==
    /\ Len(col_of) = 3
    /\ HasIntIndex(CurRow[3])
    /\ IndexOf(CurRow[3]) = 1
    /\ cursor_at[3] > 2
    /\ values[1] = <<"B">>

\* the row with every index attribute that int() rejects removed
WithoutBadIndexes(row) ==
    [j \in 1..Len(row) |->
        IF HasBadIndex(row[j]) THEN Cell(None, row[j].Data) ELSE row[j]]

(***************************************************************************)
(* C6: a cell whose index attribute does not parse as an integer is        *)
(* handled exactly as a cell with no index attribute: nothing is raised,   *)
(* no gap-fill entry is added, its text is appended at the cursor, the     *)
(* cursor advances by one, and the row and the run go on normally.         *)
(***************************************************************************)
C6_BadIndexAsNoIndex ==
    /\ \A i \in Placed :
           LET cell == CurRow[i]
           IN  (HasBadIndex(cell) \/ cell.Index = None) =>
                   /\ col_of[i] = cursor_at[i]
                   /\ Len(values) >= cursor_at[i]
                   /\ values[cursor_at[i]] = GetCellText(cell)
                   /\ CursorAfter(i) = cursor_at[i] + 1
    /\ (pc = "gap_while" /\ HasBadIndex(CurRow[ci])) => ~ENABLED GapFill
    /\ \A i \in 1..Len(rows_out) :
           rows_out[i] = ReconstructRow(WithoutBadIndexes(table[i]))
    /\ (pc = "done" /\ GoodDoc) =>
           /\ ret = Some(SUCCESS)
           /\ stderr = <<>>
           /\ Len(output_csv[1]) = Len(doc.rows)

\* a run has ended well on a row whose second cell has a malformed index and
\* whose third cell has an integer one
C6_Witness ==
    /\ pc = "done"
    /\ ret = Some(SUCCESS)
    /\ Len(doc.rows[1]) = 3
    /\ HasBadIndex(doc.rows[1][2])
    /\ HasIntIndex(doc.rows[1][3])
    /\ IndexOf(doc.rows[1][3]) = 3

(***************************************************************************)
(* C7: parse_rows returns one reconstructed row per Row of the table, in   *)
(* source order, the i-th from the i-th, none reordered, merged or         *)
(* skipped (a Row of no cells gives an empty row in its place); the        *)
(* output is the first row as header followed by the remaining rows, one   *)
(* fewer than the Rows, in source order.                                   *)
(***************************************************************************)
C7_OneRowPerRowInOrder ==
    /\ Len(rows_out) <= Len(table)
    /\ \A i \in 1..Len(rows_out) : rows_out[i] = ReconstructRow(table[i])
    /\ pc = "rows_for" => Len(rows_out) = ri
    /\ pc \in {"check_rows", "headers", "normalize"} \/ ret = Some(SUCCESS) =>
           /\ table = doc.rows
           /\ Len(all_rows) = Len(doc.rows)
           /\ \A i \in 1..Len(doc.rows) :
                  all_rows[i] = ReconstructRow(doc.rows[i])
    /\ ret = Some(SUCCESS) =>
           /\ Len(output_csv[1]) = Len(doc.rows)
           /\ output_csv[1][1] = ReconstructRow(doc.rows[1])
           /\ \A i \in 2..Len(doc.rows) :
                  output_csv[1][i] =
                      NormalizeRow(ReconstructRow(doc.rows[i]),
                                   Len(ReconstructRow(doc.rows[1])))
           /\ stdout = <<[wrote |-> Len(doc.rows) - 1]>>

\* three Rows were written: the second has no cells, the third repeats the first
C7_Witness ==
    /\ ret = Some(SUCCESS)
    /\ Len(doc.rows) = 3
    /\ doc.rows[1] # <<>>
    /\ doc.rows[2] = <<>>
    /\ doc.rows[3] = doc.rows[1]

\* the explicit integer indexes of a row
IntIndexes(row) ==
    { IndexOf(row[j]) : j \in { k \in 1..Len(row) : HasIntIndex(row[k]) } }

(***************************************************************************)
(* C8 as stated: the cursor is always 1 + the number of strings            *)
(* accumulated, so the returned row has length = final cursor - 1; and     *)
(* that length is the largest explicit index seen, or the position the     *)
(* cursor reaches over the cells alone when no index exceeds it.           *)
(***************************************************************************)
C8_Original ==
    /\ current_col = 1 + Len(values)
    /\ \A i \in 1..Len(rows_out) :
           Len(rows_out[i]) = Max(IntIndexes(table[i]) \cup {Len(table[i])})

\* the length the cells of a row force
RowLength(row) ==
    Max({Len(row)} \cup
        { IndexOf(row[j]) + (Len(row) - j) :
              j \in { k \in 1..Len(row) : HasIntIndex(row[k]) } })

(***************************************************************************)
(* C8 as amended: between loop iterations the cursor is 1 + the number of  *)
(* strings accumulated, so the returned row has length = final cursor - 1; *)
(* that length is the largest, over the cells with an explicit integer     *)
(* index, of the index plus the number of cells after that cell, or the    *)
(* number of cells when that is larger; so it is at least the largest      *)
(* explicit index seen and at least the number of cells.                   *)
(***************************************************************************)
C8_CursorAndRowLength ==
    /\ current_col = 1 + Len(values)
    /\ \A i \in 1..Len(rows_out) :
           /\ Len(rows_out[i]) = RowLength(table[i])
           /\ Len(rows_out[i]) >= Max(IntIndexes(table[i]) \cup {Len(table[i])})
    /\ (ri > 0 /\ Len(rows_out) = ri) => Len(rows_out[ri]) = current_col - 1

\* a returned row whose largest index is on a cell that is not the last
C8_Witness ==
    \E i \in 1..Len(rows_out) :
        /\ Len(table[i]) = 3
        /\ HasIntIndex(table[i][1])
        /\ IndexOf(table[i][1]) = 3
        /\ Len(rows_out[i]) = 5

\* the stages of a run
Pipeline == <<"read", "parse", "reconstruct", "normalize", "write">>

\* the stages entered so far, and what a written file presupposes
C9_StagesInOrder ==
    /\ \E n \in 0..Len(Pipeline) : stages = SubSeq(Pipeline, 1, n)
    /\ output_csv # None =>
           /\ stages = Pipeline
           /\ Len(all_rows) = Len(doc.rows)
           /\ Len(normalized) = Len(doc.rows) - 1
    /\ output_csv = None <=> stages # Pipeline
    /\ ret # None => pc = "done"
    /\ ret = Some(FAILURE) => stages # Pipeline

(***************************************************************************)
(* C9: a run is a linear pipeline: the stages read, parse, reconstruct,    *)
(* normalize, write happen at most once each and in that order; the write  *)
(* happens only after every row is reconstructed and normalised; nothing   *)
(* is retried; after a failure nothing more runs; every run ends with the  *)
(* success or the failure status.                                          *)
(***************************************************************************)
C9_LinearPipeline ==
    /\ [](C9_StagesInOrder)
    /\ [][ret = None /\ IsPrefix(stages, stages')]_vars
    /\ <>(pc = "done" /\ ret \in {Some(SUCCESS), Some(FAILURE)})

\* a run of three rows has written its output
C9_Witness ==
    /\ pc = "done"
    /\ stages = Pipeline
    /\ Len(doc.rows) = 3
    /\ Len(normalized) = 2

\* columns skipped ahead of cell i of the current row
GapBefore(i) ==
    IF HasIntIndex(CurRow[i]) /\ IndexOf(CurRow[i]) > cursor_at[i]
    THEN IndexOf(CurRow[i]) - cursor_at[i]
    ELSE 0

RECURSIVE SumGaps(_)
SumGaps(n) == IF n = 0 THEN 0 ELSE SumGaps(n - 1) + GapBefore(n)

\* the entries of a row that are not ""
RECURSIVE NonBlank(_)
NonBlank(s) ==
    IF s = <<>> THEN <<>>
    ELSE IF Head(s) = <<>> THEN NonBlank(Tail(s))
    ELSE <<Head(s)>> \o NonBlank(Tail(s))

(***************************************************************************)
(* C10: reconstructing a row never drops or reorders a cell's value: for   *)
(* any mix of absent, malformed, increasing, duplicate or decreasing       *)
(* indexes the row holds the cells' texts in source order, every other     *)
(* entry is a gap-fill "", and the length is the number of cells plus the  *)
(* number of gap-fill entries: at least the number of cells and at least   *)
(* every explicit integer index.                                           *)
(***************************************************************************)
C10_NoCellDroppedOrReordered ==
    /\ \A i \in Placed :
           /\ col_of[i] \in DOMAIN values
           /\ values[col_of[i]] = GetCellText(CurRow[i])
           /\ col_of[i] >= i
           /\ HasIntIndex(CurRow[i]) => col_of[i] >= IndexOf(CurRow[i])
           /\ \A j \in Placed : j < i => col_of[j] < col_of[i]
    /\ \A c \in DOMAIN values :
           (\A i \in Placed : col_of[i] # c) => values[c] = <<>>
    /\ pc \in {"cells_for", "rows_for"} =>
           /\ Len(col_of) = ci
           /\ Len(values) = ci + SumGaps(ci)
    /\ \A i \in 1..Len(rows_out) :
           /\ NonBlank(rows_out[i]) =
                  NonBlank([j \in 1..Len(table[i]) |-> GetCellText(table[i][j])])
           /\ Len(rows_out[i]) >= Len(table[i])
           /\ \A k \in IntIndexes(table[i]) : Len(rows_out[i]) >= k

\* a returned row of a duplicate index, a malformed one and an absent one
\* after a gap
C10_Witness ==
    \E i \in 1..Len(rows_out) :
        /\ Len(table[i]) = 3
        /\ HasIntIndex(table[i][1]) /\ IndexOf(table[i][1]) = 2
        /\ HasIntIndex(table[i][2]) /\ IndexOf(table[i][2]) = 2
        /\ table[i][3].Index = None
        /\ rows_out[i] = <<<<>>, <<"A">>, <<"A">>, <<"B">>>>

=============================================================================
